---- MODULE Spec2Model ----
(***************************************************************************)
(* Strays Bengaluru (src/app.py): the persistence store, the two Map View  *)
(* Builders (map_view, donation_map) with their lazy geocoding, the month  *)
(* aggregation of stats, the record intake handlers (add_donation,         *)
(* report_animal) with the image upload, the accounts (register, profile), *)
(* the events (create_event, signup_event) and feedback, as state machines *)
(* over the stored rows and the requests in flight.                        *)
(***************************************************************************)
EXTENDS Integers, Sequences, FiniteSets, TLC

VARIABLES
  users,      \* User table: id -> [username, email, role, points]
  donations,  \* Donation table, row i has primary key i
  reports,    \* Report table, row i has primary key i
  req,        \* the requests in flight, one per worker slot
  resolved,   \* history: rows for which the resolver has returned a location
  uploads,    \* the names of the files in UPLOAD_FOLDER
  events,     \* Event table with its participants, row i has primary key i
  feedbacks   \* Feedback table

\* what the map, analytics and intake handlers other than the upload leave alone
rest == <<uploads, events, feedbacks>>

vars == <<users, donations, reports, req, resolved, uploads, events, feedbacks>>

----------------------------------------------------------------------------
(* Bounds *)

MaxRecords == 2      \* stored rows (reports and donations together)
MaxChartRows == 3    \* stored rows in the analytics specification
MaxIntake == 2       \* submissions accepted in the intake specification

----------------------------------------------------------------------------
(* Values *)

None == "None"

\* time.sleep(1)
SleepSeconds == 1

\* lat, lng = 12.9716, 77.5946
DefaultLat == "12.9716"
DefaultLng == "77.5946"

\* What geolocator.geocode can return for an address: a location, no match
\* (None), or an exception. The locations differ from the default
\* coordinates, so that a marker shows whether it carries a resolved location.
GeoLocations ==
  { [latitude |-> "12.9352", longitude |-> "77.6245"],
    [latitude |-> "13.0358", longitude |-> "77.5970"] }
NoMatch == [latitude |-> None, longitude |-> None]
Raised == [latitude |-> "raise", longitude |-> "raise"]
GeocodeOutcomes == GeoLocations \cup {NoMatch, Raised}

\* Timestamps, to the month: [year, month]; NoTime is a NULL timestamp
NoTime == [year |-> 0, month |-> 0]
Dec2023 == [year |-> 2023, month |-> 12]
Jan2024 == [year |-> 2024, month |-> 1]
Mar2024 == [year |-> 2024, month |-> 3]
Months == {Dec2023, Jan2024, Mar2024}

UserIds == {1, 2}
\* the workers: two requests are handled concurrently
Slots == {1, 2}

\* animal_type values and animal_type filters, as character sequences
AnimalTypes == { <<"D", "o", "g">>, <<"c", "a", "t">> }
AnimalFilters == { <<>>, <<"A", "T">> }

\* the animal_type submitted with the i-th report
AnimalOf(i) == IF i % 2 = 1 THEN <<"D", "o", "g">> ELSE <<"c", "a", "t">>

\* str.lower() / the case folding of ILIKE over the letters in use
LowerChar(c) ==
  CASE c = "D" -> "d"
    [] c = "A" -> "a"
    [] c = "T" -> "t"
    [] c = "P" -> "p"
    [] c = "N" -> "n"
    [] c = "G" -> "g"
    [] OTHER -> c

Lower(s) == [i \in 1..Len(s) |-> LowerChar(s[i])]

\* Report.animal_type.ilike('%' + f + '%'): f occurs in s, ignoring case
ILikeContains(s, f) ==
  \E k \in 0..(Len(s) - Len(f)) :
    \A i \in 1..Len(f) : Lower(s)[k + i] = Lower(f)[i]

----------------------------------------------------------------------------
(* Rows *)

\* User(username=..., email=..., role=...): points default to 0
NewUser(username, email, role) ==
  [username |-> username, email |-> email, role |-> role, points |-> 0]

\* The accounts registered before the run: an admin (id 1) and a donor (id 2)
Registered ==
  << NewUser("asha", "asha@example.com", "admin"),
     NewUser("ravi", "ravi@example.com", "donor") >>

\* Variant: every logged-in user passes for an admin
IsAdmin_Anyone(user) == TRUE

\* current_user.role != 'admin' is false
IsAdmin(user) == user.role = "admin"

\* a NULL image_filename (a stored file name is never empty)
NoFilename == <<>>

\* the description submitted with a donation, when it is not left empty
SomeText == <<"f", "o", "o", "d">>

NewReport(animal, reporter, month) ==
  [animal_type |-> animal, reporter_id |-> reporter, report_time |-> month,
   image_filename |-> NoFilename, latitude |-> None, longitude |-> None]

NewDonation(donor, when) ==
  [donor_id |-> donor, description |-> SomeText, pickup_time |-> when,
   pickup_latitude |-> None, pickup_longitude |-> None]

\* The coordinate columns of a table, as one request's session holds them
ReportCoords(rows) ==
  [i \in 1..Len(rows) |->
     [latitude |-> rows[i].latitude, longitude |-> rows[i].longitude]]

DonationCoords(rows) ==
  [i \in 1..Len(rows) |->
     [latitude |-> rows[i].pickup_latitude,
      longitude |-> rows[i].pickup_longitude]]

\* Report.query.all() / Donation.query.all(): every row, in rowid order
AllIds(rows) == [i \in 1..Len(rows) |-> i]

RECURSIVE FilterByAnimal(_, _, _)
\* Report.query.filter(Report.animal_type.ilike(...)).all(): the matching
\* rows among i..Len(rows), in rowid order
FilterByAnimal(rows, f, i) ==
  IF i > Len(rows) THEN <<>>
  ELSE (IF ILikeContains(rows[i].animal_type, f) THEN <<i>> ELSE <<>>)
       \o FilterByAnimal(rows, f, i + 1)

----------------------------------------------------------------------------
(* Requests *)

NoChart == [labels |-> <<>>, counts |-> <<>>]

\* the messages flashed to a user who is not an admin
NoAnalytics == "You are not authorized to view analytics."
NoEvents == "You are not authorized to create events."

\* request.files['image']: whether the key is there, and the file's name
NoImage == [attached |-> FALSE, filename |-> <<>>]

\* request.form and request.files: the keys that are absent, and the values
\* of the others
NoForm ==
  [absent |-> {}, animal_type |-> <<>>, description |-> <<>>,
   pickup_time |-> <<>>, image |-> NoImage,
   username |-> "", email |-> "", role |-> "", event_time |-> <<>>,
   message |-> ""]

IdleReq ==
  [kind |-> "idle", pc |-> "idle", fetched |-> <<>>, idx |-> 0,
   snap |-> <<>>, committed |-> FALSE, lat |-> None, lng |-> None,
   markers |-> <<>>, user |-> 0, response |-> "none",
   \* the message flashed, the HTTP method, the event_id of the URL
   flash |-> "", method |-> "", event_id |-> 0,
   \* current_user.points as this request's session loaded it, and the form
   points |-> 0, form |-> NoForm,
   \* the parsed pickup_time and new_report.image_filename
   pickup_time |-> NoTime, image_filename |-> NoFilename,
   \* history of an intake: the primary key of the row it committed, and
   \* whether its notifications have been attempted
   row |-> 0, notified |-> FALSE,
   donation_data |-> NoChart, report_data |-> NoChart,
   \* history of this traversal: whether the resolver has been invoked, the
   \* seconds slept since its last invocation, the rows for which it returned
   \* no match or raised, and the rows it had resolved before the fetch
   called |-> FALSE, waited |-> 0, nomatch |-> {}, raised |-> {}, known |-> {}]

Marker(id, lat, lng) == [id |-> id, lat |-> lat, lng |-> lng]

\* The row the loop is at
Current(r) == r.fetched[r.idx]

\* The coordinates the request's session reads for row id: the values loaded
\* by the query, or, once the session has committed (every loaded object is
\* expired), the values in the store at the time of the read.
SessionCoords(r, stored, id) == IF r.committed THEN stored[id] ELSE r.snap[id]

Cached(c) == c.latitude # None /\ c.longitude # None

\* for ... in ..._all: the next iteration, or the render after the last one
NextIteration(r) ==
  IF r.idx + 1 > Len(r.fetched)
    THEN [r EXCEPT !.idx = r.idx + 1, !.pc = "done"]
    ELSE [r EXCEPT !.idx = r.idx + 1, !.pc = "loop"]

\* markers.append({"lat": lat, "lng": lng, ...}) at the end of an iteration
AppendMarker(r) ==
  NextIteration([r EXCEPT !.markers = Append(r.markers, Marker(Current(r), r.lat, r.lng))])

----------------------------------------------------------------------------
(* map_view: the Reports map *)

\* reports_all: filtered when animal_filter is non-empty
FetchReports(rows, f) ==
  IF f # <<>> THEN FilterByAnimal(rows, f, 1) ELSE AllIds(rows)

StartTraversal(kind, ids, coords, history) ==
  [IdleReq EXCEPT !.kind = kind, !.fetched = ids, !.idx = 1, !.snap = coords,
                  !.known = history,
                  !.pc = IF Len(ids) = 0 THEN "done" ELSE "loop"]

MapViewBegin(q) ==
  /\ req[q].kind = "idle"
  /\ \E f \in AnimalFilters :
       req' = [req EXCEPT ![q] =
                 StartTraversal("map_view", FetchReports(reports, f),
                                ReportCoords(reports), resolved.report)]
  /\ UNCHANGED <<users, donations, reports, resolved, rest>>

\* if report.latitude is not None and report.longitude is not None
UseCachedOrGeocode(r, c) ==
  IF Cached(c)
    THEN AppendMarker([r EXCEPT !.lat = c.latitude, !.lng = c.longitude])
    ELSE [r EXCEPT !.pc = "geocode"]

MapViewCheck(q) ==
  /\ req[q].kind = "map_view" /\ req[q].pc = "loop"
  /\ req' = [req EXCEPT ![q] =
               UseCachedOrGeocode(req[q],
                 SessionCoords(req[q], ReportCoords(reports), Current(req[q])))]
  /\ UNCHANGED <<users, donations, reports, resolved, rest>>

\* geolocator.geocode(...) is invoked for the current row and answers out
Invoked(r, out) ==
  [r EXCEPT !.called = TRUE, !.waited = 0,
            !.nomatch = IF out = NoMatch THEN @ \cup {Current(r)} ELSE @,
            !.raised = IF out = Raised THEN @ \cup {Current(r)} ELSE @]

\* Variant: no match and an exception skip the report, as donation_map does
MapViewAfterGeocode_SkipOnFailure(r, out) ==
  IF out \in GeoLocations
    THEN [r EXCEPT !.lat = out.latitude, !.lng = out.longitude,
                   !.committed = TRUE, !.pc = "sleep"]
    ELSE NextIteration(r)

\* The request after geolocator.geocode answered (map_view): the location's
\* coordinates, or the default coordinates on no match and on an exception;
\* time.sleep(1) follows in every case.
MapViewAfterGeocode(r, out) ==
  IF out \in GeoLocations
    THEN [r EXCEPT !.lat = out.latitude, !.lng = out.longitude,
                   !.committed = TRUE, !.pc = "sleep"]
    ELSE [r EXCEPT !.lat = DefaultLat, !.lng = DefaultLng, !.pc = "sleep"]

\* Variant: the resolved coordinates are never stored on the report
StoreReportCoords_NotStored(rows, id, out) == rows

\* Variant: on no match and on an exception the default coordinates are
\* stored on the report
StoreReportCoords_StoresFallback(rows, id, out) ==
  IF out \in GeoLocations
    THEN [rows EXCEPT ![id].latitude = out.latitude,
                      ![id].longitude = out.longitude]
    ELSE [rows EXCEPT ![id].latitude = DefaultLat,
                      ![id].longitude = DefaultLng]

\* report.latitude = lat; report.longitude = lng; db.session.commit()
StoreReportCoords(rows, id, out) ==
  IF out \in GeoLocations
    THEN [rows EXCEPT ![id].latitude = out.latitude,
                      ![id].longitude = out.longitude]
    ELSE rows

NoteResolved(history, id, out) ==
  IF out \in GeoLocations THEN history \cup {id} ELSE history

MapViewGeocode(q) ==
  /\ req[q].kind = "map_view" /\ req[q].pc = "geocode"
  /\ \E out \in GeocodeOutcomes :
       /\ req' = [req EXCEPT ![q] = MapViewAfterGeocode(Invoked(req[q], out), out)]
       /\ reports' = StoreReportCoords(reports, Current(req[q]), out)
       /\ resolved' = [resolved EXCEPT
                         !.report = NoteResolved(@, Current(req[q]), out)]
  /\ UNCHANGED <<users, donations, rest>>

\* time.sleep(1), then the marker of this iteration
SleepThenMarker(r) == AppendMarker([r EXCEPT !.waited = r.waited + SleepSeconds])

MapViewSleep(q) ==
  /\ req[q].kind = "map_view" /\ req[q].pc = "sleep"
  /\ req' = [req EXCEPT ![q] = SleepThenMarker(req[q])]
  /\ UNCHANGED <<users, donations, reports, resolved, rest>>

----------------------------------------------------------------------------
(* donation_map: the Donations map *)

DonationMapBegin(q) ==
  /\ req[q].kind = "idle"
  /\ req' = [req EXCEPT ![q] =
               StartTraversal("donation_map", AllIds(donations),
                              DonationCoords(donations), resolved.donation)]
  /\ UNCHANGED <<users, donations, reports, resolved, rest>>

DonationMapCheck(q) ==
  /\ req[q].kind = "donation_map" /\ req[q].pc = "loop"
  /\ req' = [req EXCEPT ![q] =
               UseCachedOrGeocode(req[q],
                 SessionCoords(req[q], DonationCoords(donations), Current(req[q])))]
  /\ UNCHANGED <<users, donations, reports, resolved, rest>>

\* Variant: an exception of the resolver is not caught and ends the request
DonationMapAfterGeocode_Abort(r, out) ==
  IF out \in GeoLocations
    THEN [r EXCEPT !.lat = out.latitude, !.lng = out.longitude,
                   !.committed = TRUE, !.pc = "sleep"]
    ELSE IF out = Raised THEN [r EXCEPT !.pc = "aborted"]
    ELSE NextIteration(r)

\* The request after geolocator.geocode answered (donation_map): on a location
\* the coordinates, then time.sleep(1); on no match and on an exception,
\* continue: no marker and no sleep.
DonationMapAfterGeocode(r, out) ==
  IF out \in GeoLocations
    THEN [r EXCEPT !.lat = out.latitude, !.lng = out.longitude,
                   !.committed = TRUE, !.pc = "sleep"]
    ELSE NextIteration(r)

\* Variant: the UPDATE that stores the coordinates also clears pickup_time
StoreDonationCoords_ClearsTime(rows, id, out) ==
  IF out \in GeoLocations
    THEN [rows EXCEPT ![id].pickup_latitude = out.latitude,
                      ![id].pickup_longitude = out.longitude,
                      ![id].pickup_time = NoTime]
    ELSE rows

\* donation.pickup_latitude = lat; donation.pickup_longitude = lng; commit
StoreDonationCoords(rows, id, out) ==
  IF out \in GeoLocations
    THEN [rows EXCEPT ![id].pickup_latitude = out.latitude,
                      ![id].pickup_longitude = out.longitude]
    ELSE rows

DonationMapGeocode(q) ==
  /\ req[q].kind = "donation_map" /\ req[q].pc = "geocode"
  /\ \E out \in GeocodeOutcomes :
       /\ req' = [req EXCEPT ![q] = DonationMapAfterGeocode(Invoked(req[q], out), out)]
       /\ donations' = StoreDonationCoords(donations, Current(req[q]), out)
       /\ resolved' = [resolved EXCEPT
                         !.donation = NoteResolved(@, Current(req[q]), out)]
  /\ UNCHANGED <<users, reports, rest>>

DonationMapSleep(q) ==
  /\ req[q].kind = "donation_map" /\ req[q].pc = "sleep"
  /\ req' = [req EXCEPT ![q] = SleepThenMarker(req[q])]
  /\ UNCHANGED <<users, donations, reports, resolved, rest>>

\* return render_template(...): the response leaves, the worker is free
Respond(q) ==
  /\ req[q].pc = "done"
  /\ req' = [req EXCEPT ![q] = IdleReq]
  /\ UNCHANGED <<users, donations, reports, resolved, rest>>

----------------------------------------------------------------------------
(* The map specification: stored rows without coordinates, as the intake   *)
(* handlers leave them, and any interleaving of map requests.              *)

InitMap ==
  /\ \E n \in 0..MaxRecords, m \in 0..MaxRecords :
       /\ n + m <= MaxRecords
       /\ reports = [i \in 1..n |-> NewReport(AnimalOf(i), 1, Jan2024)]
       /\ donations = [i \in 1..m |-> NewDonation(1, Jan2024)]
  /\ users = [u \in UserIds |->
               [Registered[u] EXCEPT
                  !.points = IF u = 1 THEN 5 * Len(reports) + 10 * Len(donations)
                                      ELSE 0]]
  /\ req = [q \in Slots |-> IdleReq]
  /\ resolved = [report |-> {}, donation |-> {}]
  /\ uploads = {}
  /\ events = <<>>
  /\ feedbacks = <<>>

NextMap ==
  \E q \in Slots :
    \/ MapViewBegin(q)
    \/ MapViewCheck(q)
    \/ MapViewGeocode(q)
    \/ MapViewSleep(q)
    \/ DonationMapBegin(q)
    \/ DonationMapCheck(q)
    \/ DonationMapGeocode(q)
    \/ DonationMapSleep(q)
    \/ Respond(q)

SpecMap == InitMap /\ [][NextMap]_vars

----------------------------------------------------------------------------
(* stats: the month aggregation *)

\* Strings are sequences of characters, ordered by code point as str is.
CharCode(c) ==
  CASE c = "-" -> 45
    [] c = "0" -> 48 [] c = "1" -> 49 [] c = "2" -> 50 [] c = "3" -> 51
    [] c = "4" -> 52 [] c = "5" -> 53 [] c = "6" -> 54 [] c = "7" -> 55
    [] c = "8" -> 56 [] c = "9" -> 57
    [] c = "U" -> 85 [] c = "k" -> 107 [] c = "n" -> 110 [] c = "o" -> 111
    [] c = "w" -> 119

\* a < b for str: at the first difference the smaller code point, or a is a
\* proper prefix of b
StrLess(a, b) ==
  \E k \in 1..(Len(b)) :
    /\ \A i \in 1..(k - 1) : i <= Len(a) /\ a[i] = b[i]
    /\ \/ k = Len(a) + 1
       \/ k <= Len(a) /\ CharCode(a[k]) < CharCode(b[k])

DigitChar(d) == <<"0", "1", "2", "3", "4", "5", "6", "7", "8", "9">>[d + 1]

\* t.strftime("%Y-%m"): four digits of the year, a dash, two of the month
Strftime(t) ==
  << DigitChar(t.year \div 1000), DigitChar((t.year \div 100) % 10),
     DigitChar((t.year \div 10) % 10), DigitChar(t.year % 10), "-",
     DigitChar(t.month \div 10), DigitChar(t.month % 10) >>

Unknown == <<"U", "n", "k", "n", "o", "w", "n">>

\* Variant: the key is formatted without looking whether pickup_time is set
DonationKey_NoGuard(d) == Strftime(d.pickup_time)

\* key = d.pickup_time.strftime("%Y-%m") if d.pickup_time else "Unknown"
DonationKey(d) ==
  IF d.pickup_time # NoTime THEN Strftime(d.pickup_time) ELSE Unknown

\* key = r.report_time.strftime("%Y-%m")
ReportKey(r) == Strftime(r.report_time)

\* A dict is the sequence of its items [key, n] in insertion order.
\* data.get(key, 0)
DictGet(data, key) ==
  IF \E i \in 1..Len(data) : data[i].key = key
    THEN data[CHOOSE i \in 1..Len(data) : data[i].key = key].n
    ELSE 0

\* Variant: the count of a key is set to 1 instead of incremented
DictIncrement_Reset(data, key) ==
  IF \E i \in 1..Len(data) : data[i].key = key
    THEN [i \in 1..Len(data) |->
            IF data[i].key = key THEN [key |-> key, n |-> 1] ELSE data[i]]
    ELSE Append(data, [key |-> key, n |-> 1])

\* data[key] = data.get(key, 0) + 1
DictIncrement(data, key) ==
  IF \E i \in 1..Len(data) : data[i].key = key
    THEN [i \in 1..Len(data) |->
            IF data[i].key = key
              THEN [key |-> key, n |-> DictGet(data, key) + 1]
              ELSE data[i]]
    ELSE Append(data, [key |-> key, n |-> DictGet(data, key) + 1])

\* data.keys()
DictKeys(data) == [i \in 1..Len(data) |-> data[i].key]

RECURSIVE Tally(_, _)
\* for x in rows: data[key(x)] = data.get(key(x), 0) + 1, over the keys of
\* the rows in the order they were fetched
Tally(keys, data) ==
  IF keys = <<>> THEN data
  ELSE Tally(Tail(keys), DictIncrement(data, Head(keys)))

\* x put into the ascending sequence s
InsertSorted(s, x) ==
  LET before == SelectSeq(s, LAMBDA y : ~StrLess(x, y))
      after == SelectSeq(s, LAMBDA y : StrLess(x, y))
  IN before \o <<x>> \o after

\* Variant: the keys are left in the order of the dict
Sorted_InsertionOrder(s) == s

RECURSIVE Sorted(_)
\* sorted(s)
Sorted(s) ==
  IF s = <<>> THEN <<>> ELSE InsertSorted(Sorted(SubSeq(s, 1, Len(s) - 1)), s[Len(s)])

\* Variant: counts taken in the order of the dict, not of the sorted keys
Chart_CountsInDictOrder(data) ==
  [labels |-> Sorted(DictKeys(data)),
   counts |-> [i \in 1..Len(data) |-> data[i].n]]

\* {'labels': sorted keys, 'counts': [data[k] for k in sorted keys]}
Chart(data) ==
  LET ks == Sorted(DictKeys(data))
  IN [labels |-> ks, counts |-> [i \in 1..Len(ks) |-> DictGet(data, ks[i])]]

\* The orders in which a query without ORDER BY may return n rows
FetchOrders(n) ==
  {f \in [1..n -> 1..n] : \A i, j \in 1..n : f[i] = f[j] => i = j}

DonationChart(rows, order) ==
  Chart(Tally([i \in 1..Len(rows) |-> DonationKey(rows[order[i]])], <<>>))

ReportChart(rows, order) ==
  Chart(Tally([i \in 1..Len(rows) |-> ReportKey(rows[order[i]])], <<>>))

\* if current_user.role != 'admin': flash, redirect to the dashboard
StatsBegin(q) ==
  /\ req[q].kind = "idle"
  /\ \E u \in UserIds :
       req' = [req EXCEPT ![q] =
                 IF ~IsAdmin(users[u])
                   THEN [IdleReq EXCEPT !.kind = "stats", !.user = u,
                                        !.pc = "done", !.flash = NoAnalytics,
                                        !.response = "redirect dashboard"]
                   ELSE [IdleReq EXCEPT !.kind = "stats", !.user = u,
                                        !.pc = "donations"]]
  /\ UNCHANGED <<users, donations, reports, resolved, rest>>

\* donation_data, donation_chart
StatsDonations(q) ==
  /\ req[q].kind = "stats" /\ req[q].pc = "donations"
  /\ \E order \in FetchOrders(Len(donations)) :
       req' = [req EXCEPT ![q].donation_data = DonationChart(donations, order),
                          ![q].pc = "reports"]
  /\ UNCHANGED <<users, donations, reports, resolved, rest>>

\* r.report_time.strftime(...) of a row whose report_time is None raises an
\* AttributeError
StrftimeRaises(rows) == \E i \in 1..Len(rows) : rows[i].report_time = NoTime

\* report_data, report_chart, render_template("stats.html", ...); the
\* AttributeError is not caught
StatsReports(q) ==
  /\ req[q].kind = "stats" /\ req[q].pc = "reports"
  /\ \E order \in FetchOrders(Len(reports)) :
       req' = IF StrftimeRaises(reports)
                THEN [req EXCEPT ![q].pc = "done",
                                 ![q].response = "500 Internal Server Error"]
                ELSE [req EXCEPT
                        ![q].report_data = ReportChart(reports, order),
                        ![q].pc = "done", ![q].response = "stats.html"]
  /\ UNCHANGED <<users, donations, reports, resolved, rest>>

\* The analytics specification: any stored rows whose timestamps the schema
\* and the intake admit (pickup_time may be NULL, report_time is assigned by
\* the store), and any interleaving of stats requests.
InitStats ==
  /\ \E n \in 0..MaxChartRows, m \in 0..MaxChartRows :
       /\ n + m <= MaxChartRows
       /\ donations \in [1..n -> {NewDonation(1, t) : t \in Months \cup {NoTime}}]
       /\ reports \in [1..m -> {NewReport(AnimalOf(1), 1, t) : t \in Months}]
  /\ users = [u \in UserIds |->
               [Registered[u] EXCEPT
                  !.points = IF u = 1 THEN 5 * Len(reports) + 10 * Len(donations)
                                      ELSE 0]]
  /\ req = [q \in Slots |-> IdleReq]
  /\ resolved = [report |-> {}, donation |-> {}]
  /\ uploads = {}
  /\ events = <<>>
  /\ feedbacks = <<>>

NextStats ==
  \E q \in Slots :
    \/ StatsBegin(q)
    \/ StatsDonations(q)
    \/ StatsReports(q)
    \/ Respond(q)

SpecStats == InitStats /\ [][NextStats]_vars

\* The analytics specification over any rows the schema admits: report_time
\* is a nullable column too, its value left to the store only when an INSERT
\* does not name it.
InitStatsNull ==
  /\ \E n \in 0..MaxChartRows, m \in 0..MaxChartRows :
       /\ n + m <= MaxChartRows
       /\ donations \in [1..n -> {NewDonation(1, t) : t \in {Jan2024, NoTime}}]
       /\ reports \in [1..m -> {NewReport(AnimalOf(1), 1, t) :
                                  t \in Months \cup {NoTime}}]
  /\ users = [u \in UserIds |->
               [Registered[u] EXCEPT
                  !.points = IF u = 1 THEN 5 * Len(reports) + 10 * Len(donations)
                                      ELSE 0]]
  /\ req = [q \in Slots |-> IdleReq]
  /\ resolved = [report |-> {}, donation |-> {}]
  /\ uploads = {}
  /\ events = <<>>
  /\ feedbacks = <<>>

SpecStatsNull == InitStatsNull /\ [][NextStats]_vars

----------------------------------------------------------------------------
(* add_donation, report_animal: the intake handlers *)

\* func.now(): the store's clock during the run, to the month
Now == Mar2024

\* pickup_time as the datetime-local input submits it, as it is typed into
\* a plain text field, and left empty
Jan15 ==
  << "2", "0", "2", "4", "-", "0", "1", "-", "1", "5", "T",
     "1", "0", ":", "3", "0" >>
Mar02 ==
  << "2", "0", "2", "4", "-", "0", "3", "-", "0", "2", "T",
     "0", "9", ":", "0", "0" >>
Slashed == << "1", "5", "/", "0", "1", "/", "2", "0", "2", "4" >>
PickupTimeStrings == {Jan15, Mar02, Slashed, <<>>}

Digits == {"0", "1", "2", "3", "4", "5", "6", "7", "8", "9"}

DigitVal(c) == CHOOSE d \in 0..9 : DigitChar(d) = c

\* the ValueError of strptime
ValueError == [year |-> -1, month |-> -1]

\* datetime.strptime(s, '%Y-%m-%dT%H:%M'), to the month, over strings whose
\* numbers are written with all their digits
Strptime(s) ==
  LET num(i) == 10 * DigitVal(s[i]) + DigitVal(s[i + 1])
  IN IF /\ Len(s) = 16
        /\ \A i \in {1, 2, 3, 4, 6, 7, 9, 10, 12, 13, 15, 16} : s[i] \in Digits
        /\ s[5] = "-" /\ s[8] = "-" /\ s[11] = "T" /\ s[14] = ":"
        /\ num(6) \in 1..12 /\ num(9) \in 1..31
        /\ num(12) \in 0..23 /\ num(15) \in 0..59
       THEN [year |-> 100 * num(1) + num(3), month |-> num(6)]
       ELSE ValueError

\* request.form[...] of add_donation and of report_animal
DonationFields ==
  {"description", "food_type", "quantity", "pickup_location", "pickup_time"}
ReportFields == {"animal_type", "description", "location", "contact"}

\* The submitted donation forms: complete ones with each pickup_time, one
\* with the description left empty, one without the description key
DonationForms ==
  { [NoForm EXCEPT !.description = SomeText, !.pickup_time = t] :
      t \in PickupTimeStrings }
    \cup { [NoForm EXCEPT !.pickup_time = Jan15],
           [NoForm EXCEPT !.absent = {"description"}, !.pickup_time = Jan15] }

\* The submissions so far: the stored rows and those not yet committed
Submitted ==
  Len(donations) + Len(reports)
    + Cardinality({q \in Slots : req[q].pc = "commit"})

\* POST /add_donation by a logged-in user: flask-login loads current_user
\* (points included) into the request's session; the form is read
\* (a missing key aborts with 400) and pickup_time parsed (a ValueError is
\* not caught: 500).
AddDonationBegin(q) ==
  /\ req[q].kind = "idle"
  /\ Submitted < MaxIntake
  /\ \E u \in UserIds, f \in DonationForms :
       LET r == [IdleReq EXCEPT !.kind = "add_donation", !.user = u,
                                !.points = users[u].points, !.form = f]
       IN req' = [req EXCEPT ![q] =
            IF f.absent \cap DonationFields # {}
              THEN [r EXCEPT !.pc = "done", !.response = "400 Bad Request"]
            ELSE IF Strptime(f.pickup_time) = ValueError
              THEN [r EXCEPT !.pc = "done",
                             !.response = "500 Internal Server Error"]
            ELSE [r EXCEPT !.pc = "commit",
                           !.pickup_time = Strptime(f.pickup_time)]]
  /\ UNCHANGED <<users, donations, reports, resolved, rest>>

\* current_user.points += n; db.session.commit(): the UPDATE carries the
\* value computed from the points this session loaded
AwardPoints(table, r, n) == [table EXCEPT ![r.user].points = r.points + n]

\* Variant: the handler goes on to its notifications without the commit
AddDonationCommit_NoCommit(q) ==
  /\ req[q].kind = "add_donation" /\ req[q].pc = "commit"
  /\ req' = [req EXCEPT ![q].pc = "notify"]
  /\ UNCHANGED <<users, donations, reports, resolved, rest>>

\* db.session.add(new_donation); current_user.points += 10; commit
AddDonationCommit(q) ==
  /\ req[q].kind = "add_donation" /\ req[q].pc = "commit"
  /\ donations' =
       Append(donations,
              [NewDonation(req[q].user, req[q].pickup_time)
                 EXCEPT !.description = req[q].form.description])
  /\ users' = AwardPoints(users, req[q], 10)
  /\ req' = [req EXCEPT ![q].pc = "notify", ![q].points = req[q].points + 10,
                        ![q].row = Len(donations) + 1]
  /\ UNCHANGED <<reports, resolved, rest>>

\* What send_notification, post_to_twitter and check_proximity can do: they
\* write a line to the application log, or raise (nothing catches it)
NotifyOutcomes == {"logged", "raised"}

\* flash, send_notification, post_to_twitter / check_proximity, redirect
IntakeNotify(q) ==
  /\ req[q].kind \in {"add_donation", "report_animal"} /\ req[q].pc = "notify"
  /\ \E outcome \in NotifyOutcomes :
       req' = [req EXCEPT
                 ![q].pc = "done", ![q].notified = TRUE,
                 ![q].response = IF outcome = "logged"
                                   THEN "redirect dashboard"
                                   ELSE "500 Internal Server Error"]
  /\ UNCHANGED <<users, donations, reports, resolved, rest>>

ALLOWED_EXTENSIONS ==
  { <<"p", "n", "g">>, <<"j", "p", "g">>, <<"j", "p", "e", "g">>,
    <<"g", "i", "f">> }

\* Variant: the extension is what stands between the first dot and the next
RSplitExt_FirstDot(s) ==
  LET first == CHOOSE i \in 1..Len(s) :
                 s[i] = "." /\ \A j \in 1..(i - 1) : s[j] # "."
      after == SubSeq(s, first + 1, Len(s))
  IN IF \E i \in 1..Len(after) : after[i] = "."
       THEN SubSeq(after, 1,
                   (CHOOSE i \in 1..Len(after) :
                      after[i] = "." /\ \A j \in 1..(i - 1) : after[j] # ".")
                   - 1)
       ELSE after

\* filename.rsplit('.', 1)[1] of a name with a dot: what follows the last dot
RSplitExt(s) ==
  LET last == CHOOSE i \in 1..Len(s) :
                s[i] = "." /\ \A j \in (i + 1)..Len(s) : s[j] # "."
  IN SubSeq(s, last + 1, Len(s))

allowed_file(filename) ==
  /\ \E i \in 1..Len(filename) : filename[i] = "."
  /\ Lower(RSplitExt(filename)) \in ALLOWED_EXTENSIONS

RECURSIVE LStrip(_, _)
\* s.lstrip(chars)
LStrip(s, chars) ==
  IF s # <<>> /\ Head(s) \in chars THEN LStrip(Tail(s), chars) ELSE s

RECURSIVE RStrip(_, _)
\* s.rstrip(chars)
RStrip(s, chars) ==
  IF s # <<>> /\ s[Len(s)] \in chars
    THEN RStrip(SubSeq(s, 1, Len(s) - 1), chars) ELSE s

RECURSIVE JoinWords(_)
\* "_".join(s.split()) of an s that does not start with a blank
JoinWords(s) ==
  IF s = <<>> THEN <<>>
  ELSE IF Head(s) # " " THEN <<Head(s)>> \o JoinWords(Tail(s))
  ELSE LET t == LStrip(s, {" "})
       IN IF t = <<>> THEN <<>> ELSE <<"_">> \o JoinWords(t)

\* the characters [A-Za-z0-9_.-] among those in use
FilenameChars ==
  Digits \cup {"a", "e", "f", "g", "i", "p", "x", "G", "N", "P", "_", ".", "-"}

\* werkzeug's secure_filename: path separators become blanks, the words are
\* joined by "_", every character outside [A-Za-z0-9_.-] is dropped, and the
\* dots and underscores at both ends are stripped
secure_filename(filename) ==
  LET blanked == [i \in 1..Len(filename) |->
                    IF filename[i] = "/" THEN " " ELSE filename[i]]
      joined == JoinWords(LStrip(blanked, {" "}))
      kept == SelectSeq(joined, LAMBDA c : c \in FilenameChars)
  IN RStrip(LStrip(kept, {".", "_"}), {".", "_"})

\* the files attached to a report: none chosen, an image with an upper-case
\* extension, an executable, an executable posing as an image, a name
\* without a dot, and an image with a path in its name
Attachments ==
  { [attached |-> TRUE, filename |-> n] :
      n \in { <<>>,
              <<"a", ".", "P", "N", "G">>,
              <<"p", ".", "e", "x", "e">>,
              <<"a", ".", "g", "i", "f", ".", "e", "x", "e">>,
              <<"g", "i", "f">>,
              <<".", ".", "/", "e", ".", "g", "i", "f">> } }

\* The submitted report forms: complete ones without an image, one with the
\* animal type left empty, one without the animal_type key, and complete
\* ones with each attachment
ReportForms ==
  { [NoForm EXCEPT !.animal_type = a] : a \in AnimalTypes \cup {<<>>} }
    \cup { [NoForm EXCEPT !.absent = {"animal_type"}] }
    \cup { [NoForm EXCEPT !.animal_type = <<"D", "o", "g">>, !.image = i] :
             i \in Attachments }

\* if 'image' in request.files: file = request.files['image'];
\* if file and allowed_file(file.filename): the name under which the file is
\* saved and which new_report.image_filename gets, or NoFilename
SavedAs(image) ==
  IF image.attached /\ image.filename # <<>> /\ allowed_file(image.filename)
    THEN secure_filename(image.filename)
    ELSE NoFilename

\* POST /report_animal by a logged-in user: the form is read (a missing key
\* aborts with 400), the Report is built and an accepted image is saved
ReportAnimalBegin(q) ==
  /\ req[q].kind = "idle"
  /\ Submitted < MaxIntake
  /\ \E u \in UserIds, f \in ReportForms :
       LET r == [IdleReq EXCEPT !.kind = "report_animal", !.user = u,
                                !.points = users[u].points, !.form = f]
       IN IF f.absent \cap ReportFields # {}
            THEN /\ req' = [req EXCEPT ![q] =
                              [r EXCEPT !.pc = "done",
                                        !.response = "400 Bad Request"]]
                 /\ uploads' = uploads
            ELSE /\ req' = [req EXCEPT ![q] =
                              [r EXCEPT !.pc = "commit",
                                        !.image_filename = SavedAs(f.image)]]
                 /\ uploads' = IF SavedAs(f.image) # NoFilename
                                 THEN uploads \cup {SavedAs(f.image)}
                                 ELSE uploads
  /\ UNCHANGED <<users, donations, reports, resolved, events, feedbacks>>

\* db.session.add(new_report); current_user.points += 5; commit; the store
\* assigns report_time (server_default=func.now())
ReportAnimalCommit(q) ==
  /\ req[q].kind = "report_animal" /\ req[q].pc = "commit"
  /\ reports' =
       Append(reports,
              [NewReport(req[q].form.animal_type, req[q].user, Now)
                 EXCEPT !.image_filename = req[q].image_filename])
  /\ users' = AwardPoints(users, req[q], 5)
  /\ req' = [req EXCEPT ![q].pc = "notify", ![q].points = req[q].points + 5,
                        ![q].row = Len(reports) + 1]
  /\ UNCHANGED <<donations, resolved, rest>>

\* The intake specification: two registered users, empty tables, and any
\* interleaving of submissions.
Init ==
  /\ users = Registered
  /\ donations = <<>>
  /\ reports = <<>>
  /\ req = [q \in Slots |-> IdleReq]
  /\ resolved = [report |-> {}, donation |-> {}]
  /\ uploads = {}
  /\ events = <<>>
  /\ feedbacks = <<>>

Next ==
  \E q \in Slots :
    \/ AddDonationBegin(q)
    \/ AddDonationCommit(q)
    \/ ReportAnimalBegin(q)
    \/ ReportAnimalCommit(q)
    \/ IntakeNotify(q)
    \/ Respond(q)

Spec == Init /\ [][Next]_vars

----------------------------------------------------------------------------
(* register, profile: the accounts *)

MaxUsers == 3        \* rows of the User table in the accounts specification

Roles == {"admin", "donor"}

\* The username and email of the submitted forms: those of the registered
\* accounts, new ones, a registered username with a new email, and a new
\* username with a registered email
Credentials ==
  { [username |-> "asha", email |-> "asha@example.com"],
    [username |-> "ravi", email |-> "ravi@example.com"],
    [username |-> "meena", email |-> "meena@example.com"],
    [username |-> "asha", email |-> "meena@example.com"],
    [username |-> "meena", email |-> "asha@example.com"] }

\* User.query.filter_by(email=email).first() finds a row
EmailRegistered(table, email) ==
  \E i \in 1..Len(table) : table[i].email = email

\* The UNIQUE constraints on user.username and user.email, over the rows
\* other than row id (0 for a row that is being inserted)
Unique(table, id, username, email) ==
  \A i \in 1..Len(table) :
    i # id => table[i].username # username /\ table[i].email # email

\* POST /register: the form is read and the email looked up; a registered
\* email ends the request with a message
RegisterBegin(q) ==
  /\ req[q].kind = "idle"
  /\ Len(users) + Cardinality({p \in Slots : req[p].kind = "register"
                                             /\ req[p].pc = "commit"})
       < MaxUsers
  /\ \E c \in Credentials, role \in Roles :
       LET r == [IdleReq EXCEPT
                   !.kind = "register",
                   !.form = [NoForm EXCEPT !.username = c.username,
                                           !.email = c.email, !.role = role]]
       IN req' = [req EXCEPT ![q] =
            IF EmailRegistered(users, c.email)
              THEN [r EXCEPT !.pc = "done",
                             !.response = "flash, redirect register"]
              ELSE [r EXCEPT !.pc = "commit"]]
  /\ UNCHANGED <<users, donations, reports, resolved, rest>>

\* db.session.add(new_user); db.session.commit(): the INSERT fails with an
\* IntegrityError, which nothing catches, when it breaks a UNIQUE constraint
RegisterCommit(q) ==
  /\ req[q].kind = "register" /\ req[q].pc = "commit"
  /\ LET f == req[q].form
     IN IF Unique(users, 0, f.username, f.email)
          THEN /\ users' = Append(users, NewUser(f.username, f.email, f.role))
               /\ req' = [req EXCEPT ![q].pc = "done",
                                     ![q].response = "flash, redirect login"]
          ELSE /\ users' = users
               /\ req' = [req EXCEPT ![q].pc = "done",
                                     ![q].response = "500 IntegrityError"]
  /\ UNCHANGED <<donations, reports, resolved, rest>>

\* POST /profile by a logged-in user: current_user.username and
\* current_user.email are set from the form and committed
ProfilePost(q) ==
  /\ req[q].kind = "idle"
  /\ \E u \in 1..Len(users), c \in Credentials :
       LET r == [IdleReq EXCEPT
                   !.kind = "profile", !.user = u, !.pc = "done",
                   !.form = [NoForm EXCEPT !.username = c.username,
                                           !.email = c.email]]
       IN IF Unique(users, u, c.username, c.email)
            THEN /\ users' = [users EXCEPT ![u].username = c.username,
                                            ![u].email = c.email]
                 /\ req' = [req EXCEPT ![q] =
                              [r EXCEPT !.response = "redirect dashboard"]]
            ELSE /\ users' = users
                 /\ req' = [req EXCEPT ![q] =
                              [r EXCEPT !.response = "500 IntegrityError"]]
  /\ UNCHANGED <<donations, reports, resolved, rest>>

\* The accounts specification: the two registered users, and any
\* interleaving of registrations and profile updates.
InitAccounts ==
  /\ users = Registered
  /\ donations = <<>>
  /\ reports = <<>>
  /\ req = [q \in Slots |-> IdleReq]
  /\ resolved = [report |-> {}, donation |-> {}]
  /\ uploads = {}
  /\ events = <<>>
  /\ feedbacks = <<>>

NextAccounts ==
  \E q \in Slots :
    \/ RegisterBegin(q)
    \/ RegisterCommit(q)
    \/ ProfilePost(q)
    \/ Respond(q)

SpecAccounts == InitAccounts /\ [][NextAccounts]_vars

----------------------------------------------------------------------------
(* create_event, signup_event, feedback *)

MaxEvents == 2       \* rows of the Event table
MaxFeedback == 1     \* rows of the Feedback table

\* Event(title=..., event_time=...), nobody signed up; participants holds
\* the user_id of this event's rows of event_participants, in rowid order
NewEvent(when) == [event_time |-> when, participants |-> <<>>]

Methods == {"GET", "POST"}

\* /create_event by a logged-in user: anyone but an admin is sent to the
\* dashboard; GET renders the form; POST parses event_time (a ValueError is
\* not caught), adds the Event and commits
CreateEvent(q) ==
  /\ req[q].kind = "idle"
  /\ \E u \in 1..Len(users), m \in Methods, t \in {Jan15, Mar02, Slashed} :
       LET r == [IdleReq EXCEPT
                   !.kind = "create_event", !.user = u, !.method = m,
                   !.pc = "done", !.form = [NoForm EXCEPT !.event_time = t]]
       IN IF ~IsAdmin(users[u])
            THEN /\ req' = [req EXCEPT ![q] =
                              [r EXCEPT !.flash = NoEvents,
                                        !.response = "redirect dashboard"]]
                 /\ events' = events
          ELSE IF m = "GET"
            THEN /\ req' = [req EXCEPT ![q] =
                              [r EXCEPT !.response = "create_event.html"]]
                 /\ events' = events
          ELSE IF Strptime(t) = ValueError
            THEN /\ req' = [req EXCEPT ![q] =
                              [r EXCEPT
                                 !.response = "500 Internal Server Error"]]
                 /\ events' = events
          ELSE /\ Len(events) < MaxEvents
               /\ req' = [req EXCEPT ![q] =
                            [r EXCEPT !.flash = "Event created successfully!",
                                      !.response = "redirect events"]]
               /\ events' = Append(events, NewEvent(Strptime(t)))
  /\ UNCHANGED <<users, donations, reports, resolved, uploads, feedbacks>>

\* current_user in event.participants, as the rows read say
Enrolled(table, e, u) ==
  \E i \in 1..Len(table[e].participants) : table[e].participants[i] = u

\* POST /signup_event/<event_id>: Event.query.get_or_404, then the
\* participants of the event are loaded and searched for current_user
SignupBegin(q) ==
  /\ req[q].kind = "idle"
  /\ \E u \in 1..Len(users), e \in 1..MaxEvents :
       LET r == [IdleReq EXCEPT !.kind = "signup_event", !.user = u,
                                !.method = "POST", !.event_id = e]
       IN req' = [req EXCEPT ![q] =
            IF e > Len(events)
              THEN [r EXCEPT !.pc = "done", !.response = "404 Not Found"]
            ELSE IF Enrolled(events, e, u)
              THEN [r EXCEPT
                      !.pc = "done",
                      !.flash = "You are already signed up for this event.",
                      !.response = "redirect events"]
            ELSE [r EXCEPT !.pc = "commit"]]
  /\ UNCHANGED <<users, donations, reports, resolved, rest>>

\* Variant: event_participants without its primary key
PrimaryKeyFree_NoKey(table, e, u) == TRUE

\* PRIMARY KEY (user_id, event_id) of event_participants: no row (u, e) yet
PrimaryKeyFree(table, e, u) == ~Enrolled(table, e, u)

\* event.participants.append(current_user); db.session.commit(): the INSERT
\* into event_participants fails with an IntegrityError, which nothing
\* catches, when the row is there already
SignupCommit(q) ==
  /\ req[q].kind = "signup_event" /\ req[q].pc = "commit"
  /\ LET e == req[q].event_id
         u == req[q].user
     IN IF PrimaryKeyFree(events, e, u)
          THEN /\ events' = [events EXCEPT ![e].participants = Append(@, u)]
               /\ req' = [req EXCEPT
                            ![q].pc = "done",
                            ![q].flash = "Signed up for event successfully!",
                            ![q].response = "redirect events"]
          ELSE /\ events' = events
               /\ req' = [req EXCEPT ![q].pc = "done",
                                     ![q].response = "500 IntegrityError"]
  /\ UNCHANGED <<users, donations, reports, resolved, uploads, feedbacks>>

\* POST /feedback by a logged-in user
FeedbackPost(q) ==
  /\ req[q].kind = "idle"
  /\ Len(feedbacks) < MaxFeedback
  /\ \E u \in 1..Len(users) :
       /\ req' = [req EXCEPT ![q] =
                    [IdleReq EXCEPT
                       !.kind = "feedback", !.user = u, !.method = "POST",
                       !.pc = "done", !.form = [NoForm EXCEPT !.message = "thanks"],
                       !.flash = "Thank you for your feedback!",
                       !.response = "redirect feedback"]]
       /\ feedbacks' = Append(feedbacks, [user_id |-> u, message |-> "thanks"])
  /\ UNCHANGED <<users, donations, reports, resolved, uploads, events>>

\* The events specification: the two registered users, no event yet, and any
\* interleaving of event creations and sign-ups.
InitEvents ==
  /\ users = Registered
  /\ donations = <<>>
  /\ reports = <<>>
  /\ req = [q \in Slots |-> IdleReq]
  /\ resolved = [report |-> {}, donation |-> {}]
  /\ uploads = {}
  /\ events = <<>>
  /\ feedbacks = <<>>

NextEvents ==
  \E q \in Slots :
    \/ CreateEvent(q)
    \/ SignupBegin(q)
    \/ SignupCommit(q)
    \/ Respond(q)

SpecEvents == InitEvents /\ [][NextEvents]_vars

----------------------------------------------------------------------------
(* The whole site *)

MaxSite == 2         \* rows stored or renamed after the start, over all tables

\* the routes that only read the store and render a page
Pages ==
  {"dashboard", "donations", "reports", "events", "leaderboard",
   "report_details", "feedback", "feedback_sentiment", "volunteer_chat",
   "profile", "logout"}

\* GET of a page by a logged-in user
ViewPage(q) ==
  /\ req[q].kind = "idle"
  /\ \E u \in 1..Len(users), page \in Pages :
       req' = [req EXCEPT ![q] =
                 [IdleReq EXCEPT !.kind = page, !.user = u, !.method = "GET",
                                 !.pc = "done", !.response = page]]
  /\ UNCHANGED <<users, donations, reports, resolved, rest>>

\* the rows stored after the start, and the registered accounts whose
\* username or email is no longer the one they started with
SiteRows ==
  Len(donations) + Len(reports) + Len(events) + Len(feedbacks)
    + Len(users) - Len(Registered)
    + Cardinality({u \in DOMAIN Registered :
                     \/ users[u].username # Registered[u].username
                     \/ users[u].email # Registered[u].email})

\* The site specification: the two registered users, empty tables, and every
\* operation of the site, the requests served one after another by worker 1;
\* the intake forms are those of SiteForms.
InitSite ==
  /\ users = Registered
  /\ donations = <<>>
  /\ reports = <<>>
  /\ req = [q \in Slots |-> IdleReq]
  /\ resolved = [report |-> {}, donation |-> {}]
  /\ uploads = {}
  /\ events = <<>>
  /\ feedbacks = <<>>

\* one worker: the requests are served one after another
SiteSlots == {1}

\* The forms submitted to the intake handlers of the site: a complete
\* donation, a donation with a malformed pickup_time, a complete report
\* without an image, and a report without the animal_type key
SiteForms ==
  { [NoForm EXCEPT !.description = SomeText, !.pickup_time = Jan15],
    [NoForm EXCEPT !.description = SomeText, !.pickup_time = Slashed],
    [NoForm EXCEPT !.animal_type = <<"D", "o", "g">>],
    [NoForm EXCEPT !.absent = {"animal_type"}] }

NextSite ==
  \E q \in SiteSlots :
    \/ RegisterBegin(q)
    \/ RegisterCommit(q) /\ SiteRows' <= MaxSite
    \/ ProfilePost(q) /\ SiteRows' <= MaxSite
    \/ AddDonationBegin(q) /\ req'[q].form \in SiteForms
    \/ AddDonationCommit(q) /\ SiteRows' <= MaxSite
    \/ ReportAnimalBegin(q) /\ req'[q].form \in SiteForms
    \/ ReportAnimalCommit(q) /\ SiteRows' <= MaxSite
    \/ IntakeNotify(q)
    \/ CreateEvent(q) /\ SiteRows' <= MaxSite
    \/ SignupBegin(q)
    \/ SignupCommit(q)
    \/ FeedbackPost(q) /\ SiteRows' <= MaxSite
    \/ StatsBegin(q)
    \/ StatsDonations(q)
    \/ StatsReports(q)
    \/ MapViewBegin(q)
    \/ MapViewCheck(q)
    \/ MapViewGeocode(q)
    \/ MapViewSleep(q)
    \/ DonationMapBegin(q)
    \/ DonationMapCheck(q)
    \/ DonationMapGeocode(q)
    \/ DonationMapSleep(q)
    \/ ViewPage(q)
    \/ Respond(q)

SpecSite == InitSite /\ [][NextSite]_vars

----------------------------------------------------------------------------
(* Properties of the Map View Builders *)

MapKinds == {"map_view", "donation_map"}

Failed(r) == r.nomatch \cup r.raised

\* the rows whose iteration is over
VisitedIds(r) == SubSeq(r.fetched, 1, r.idx - 1)

MarkersOf(r, id) == {k \in 1..Len(r.markers) : r.markers[k].id = id}

MarkerCoords(m) == [latitude |-> m.lat, longitude |-> m.lng]

StoredCoords(kind) ==
  IF kind = "map_view" THEN ReportCoords(reports) ELSE DonationCoords(donations)

\* C1: a map request that starts after the resolver returned a location for a
\* row (in an earlier request, which stored it) never invokes the resolver for
\* that row, and gives it exactly one marker, at stored resolver coordinates
\* (not at the default coordinates).
C1_LaterRequestUsesStoredCoords ==
  \A q \in Slots :
    LET r == req[q] IN
    r.kind \in MapKinds =>
      /\ r.pc \in {"geocode", "sleep"} => Current(r) \notin r.known
      /\ r.known \cap Failed(r) = {}
      /\ \A i \in 1..(r.idx - 1) :
           r.fetched[i] \in r.known =>
             /\ Cardinality(MarkersOf(r, r.fetched[i])) = 1
             /\ \A k \in MarkersOf(r, r.fetched[i]) :
                  MarkerCoords(r.markers[k]) \in GeoLocations

C1_Witness ==
  \E q \in Slots :
    /\ req[q].kind \in MapKinds /\ req[q].pc = "done"
    /\ \E i \in 1..Len(req[q].fetched) :
         /\ req[q].fetched[i] \in req[q].known
         /\ MarkersOf(req[q], req[q].fetched[i]) # {}

\* C2: once a row's coordinates are stored they are never written again, and
\* the resolver is never invoked again for that row, whatever the interleaving
\* of the map requests.
C2_OnceStoredNeverAgain ==
  [][ /\ \A i \in 1..Len(reports) :
           Cached(ReportCoords(reports)[i]) =>
             ReportCoords(reports')[i] = ReportCoords(reports)[i]
      /\ \A i \in 1..Len(donations) :
           Cached(DonationCoords(donations)[i]) =>
             DonationCoords(donations')[i] = DonationCoords(donations)[i]
      /\ \A q \in Slots :
           (req[q].kind \in MapKinds /\ req[q].pc = "geocode" /\ req'[q] # req[q])
             => ~Cached(StoredCoords(req[q].kind)[Current(req[q])]) ]_vars

\* C3: in map_view a report for which the resolver returned no match, or
\* raised, gets exactly one marker, at the default coordinates.
C3_ReportFailureGetsDefaultMarker ==
  \A q \in Slots :
    LET r == req[q] IN
    r.kind = "map_view" =>
      /\ (r.pc = "sleep" /\ Current(r) \in Failed(r)) =>
           (r.lat = DefaultLat /\ r.lng = DefaultLng)
      /\ \A i \in 1..(r.idx - 1) :
           r.fetched[i] \in Failed(r) =>
             /\ Cardinality(MarkersOf(r, r.fetched[i])) = 1
             /\ \A k \in MarkersOf(r, r.fetched[i]) :
                  r.markers[k] = Marker(r.fetched[i], DefaultLat, DefaultLng)

C3_Witness ==
  \E q \in Slots :
    /\ req[q].kind = "map_view" /\ req[q].pc = "done"
    /\ req[q].nomatch # {} /\ req[q].raised # {}

\* C4: a row for which the resolver returned no match gets a marker at the
\* default coordinates, in donation_map as in map_view; a row is left without
\* a marker only in donation_map and only when the resolver raised.
C4_NoMatchGetsDefaultMarker ==
  \A q \in Slots :
    LET r == req[q] IN
    r.kind \in MapKinds =>
      \A i \in 1..(r.idx - 1) :
        /\ r.fetched[i] \in r.nomatch =>
             \E k \in MarkersOf(r, r.fetched[i]) :
               r.markers[k] = Marker(r.fetched[i], DefaultLat, DefaultLng)
        /\ MarkersOf(r, r.fetched[i]) = {} =>
             (r.kind = "donation_map" /\ r.fetched[i] \in r.raised)

\* C5: a map request is never aborted by a resolver failure: it visits every
\* fetched row and then renders, and its markers hold exactly one marker, in
\* fetch order, for every visited row whose coordinates were cached or
\* resolved in this request.
C5_NoAbortOneMarkerPerResolvedRow ==
  \A q \in Slots :
    LET r == req[q]
        Fine(id) == id \notin Failed(r)
        FineMarker(m) == m.id \notin Failed(r)
        fine == SelectSeq(r.markers, FineMarker)
    IN
    r.kind \in MapKinds =>
      /\ r.pc \in {"loop", "geocode", "sleep", "done"}
      /\ r.idx \in 1..(Len(r.fetched) + 1)
      /\ (r.pc = "done") = (r.idx = Len(r.fetched) + 1)
      /\ [k \in 1..Len(fine) |-> fine[k].id] = SelectSeq(VisitedIds(r), Fine)
      /\ \A k \in 1..Len(fine) : MarkerCoords(fine[k]) \in GeoLocations

C5_Witness ==
  \E q \in Slots :
    /\ req[q].kind \in MapKinds /\ req[q].pc = "done"
    /\ req[q].raised # {}
    /\ \E i \in 1..Len(req[q].fetched) :
         /\ req[q].fetched[i] \notin Failed(req[q])
         /\ MarkersOf(req[q], req[q].fetched[i]) # {}

\* C6: within one traversal the resolver is invoked again only after a sleep
\* of at least SleepSeconds since its previous invocation, whatever that
\* invocation answered.
C6_DelayBetweenInvocations ==
  \A q \in Slots :
    (req[q].kind \in MapKinds /\ req[q].pc = "geocode" /\ req[q].called)
      => req[q].waited >= SleepSeconds

\* the rows for which the resolver has returned a location so far
ResolvedRows(kind) ==
  IF kind = "map_view" THEN resolved.report ELSE resolved.donation

\* C21: the default coordinates are never stored: the stored coordinates of a
\* report or donation are both NULL, or a location the resolver returned for
\* that row; a row for which the resolver has only failed so far has NULL
\* coordinates, and every map request that has passed such a row (a row it
\* fetched) has invoked the resolver for it.
C21_FallbackNeverPersisted ==
  /\ \A kind \in MapKinds :
       \A i \in 1..Len(StoredCoords(kind)) :
         LET c == StoredCoords(kind)[i] IN
         /\ c # [latitude |-> DefaultLat, longitude |-> DefaultLng]
         /\ \/ c.latitude = None /\ c.longitude = None
            \/ c \in GeoLocations /\ i \in ResolvedRows(kind)
  /\ \A q \in Slots :
       LET r == req[q] IN
       r.kind \in MapKinds =>
         \A i \in 1..(r.idx - 1) :
           r.fetched[i] \notin ResolvedRows(r.kind) =>
             /\ r.fetched[i] \in Failed(r)
             /\ ~Cached(StoredCoords(r.kind)[r.fetched[i]])

\* a map_view request failed for report b and then resolved report a; a
\* request that started after that (it knows a) has invoked the resolver for
\* b again, which failed again: b still has NULL coordinates, and its marker
\* in the first request is at the default coordinates
C21_Witness ==
  \E q, p \in Slots :
    \E a, b \in 1..Len(reports) :
      /\ q # p /\ a # b
      /\ req[q].kind = "map_view" /\ req[q].pc = "done"
      /\ req[q].fetched = <<b, a>>
      /\ b \in Failed(req[q])
      /\ a \notin req[q].known /\ a \notin Failed(req[q])
      /\ req[q].markers[1] = Marker(b, DefaultLat, DefaultLng)
      /\ req[p].kind = "map_view"
      /\ a \in req[p].known
      /\ b \in Failed(req[p])
      /\ reports[b].latitude = None /\ reports[b].longitude = None

----------------------------------------------------------------------------
(* Properties of the month aggregation *)

\* The text of a month's label, written out
LabelText(t) ==
  CASE t = Dec2023 -> <<"2", "0", "2", "3", "-", "1", "2">>
    [] t = Jan2024 -> <<"2", "0", "2", "4", "-", "0", "1">>
    [] t = Mar2024 -> <<"2", "0", "2", "4", "-", "0", "3">>
    [] t = NoTime -> <<"U", "n", "k", "n", "o", "w", "n">>

RECURSIVE SumSeq(_)
SumSeq(s) == IF s = <<>> THEN 0 ELSE Head(s) + SumSeq(Tail(s))

\* chart has one label per distinct timestamp (to the month) in times, the
\* text of that month, and with it the number of rows of that month
CountsEachMonth(chart, times) ==
  LET present == {times[j] : j \in 1..Len(times)} IN
  /\ Len(chart.labels) = Cardinality(present)
  /\ Len(chart.counts) = Len(chart.labels)
  /\ \A t \in present :
       \E i \in 1..Len(chart.labels) :
         /\ chart.labels[i] = LabelText(t)
         /\ chart.counts[i] = Cardinality({j \in 1..Len(times) : times[j] = t})
  /\ SumSeq(chart.counts) = Len(times)
  /\ times = <<>> => chart = [labels |-> <<>>, counts |-> <<>>]

PickupTimes == [j \in 1..Len(donations) |-> donations[j].pickup_time]
ReportTimes == [j \in 1..Len(reports) |-> reports[j].report_time]

\* C7: the labels of a chart are exactly the distinct year-month keys of the
\* rows, each with the number of rows of that key, so the counts sum to the
\* number of rows; no rows give empty labels and empty counts.
C7_LabelsAndCountsPerMonth ==
  \A q \in Slots :
    /\ (req[q].kind = "stats" /\ req[q].pc \in {"reports", "done"}
          /\ req[q].response # "redirect dashboard")
         => CountsEachMonth(req[q].donation_data, PickupTimes)
    /\ (req[q].kind = "stats" /\ req[q].response = "stats.html")
         => CountsEachMonth(req[q].report_data, ReportTimes)

C7_Witness ==
  \E q \in Slots :
    /\ req[q].response = "stats.html"
    /\ Len(req[q].donation_data.labels) = 2
    /\ \E i \in 1..2 : req[q].donation_data.counts[i] = 2
    /\ req[q].report_data = NoChart

\* labels are strictly ascending in string order, counts runs parallel to
\* them, and "Unknown", when present, comes last
AscendingChart(chart) ==
  /\ Len(chart.counts) = Len(chart.labels)
  /\ \A i \in 1..(Len(chart.labels) - 1) :
       StrLess(chart.labels[i], chart.labels[i + 1])
  /\ \A i, j \in 1..Len(chart.labels) :
       chart.labels[i] = chart.labels[j] => i = j
  /\ \A i \in 1..Len(chart.labels) :
       chart.labels[i] = Unknown => i = Len(chart.labels)

\* C8: the labels of a chart are strictly ascending in plain string order,
\* without duplicates; counts is parallel to labels, counts[i] being the
\* number of rows whose key is labels[i]; "Unknown" sorts after every
\* "YYYY-MM" label.
C8_LabelsAscendingCountsParallel ==
  \A q \in Slots :
    (req[q].kind = "stats" /\ req[q].response = "stats.html") =>
      /\ AscendingChart(req[q].donation_data)
      /\ AscendingChart(req[q].report_data)
      /\ \A i \in 1..Len(req[q].donation_data.labels) :
           req[q].donation_data.counts[i] =
             Cardinality({j \in 1..Len(donations) :
                            LabelText(donations[j].pickup_time)
                              = req[q].donation_data.labels[i]})
      /\ \A i \in 1..Len(req[q].report_data.labels) :
           req[q].report_data.counts[i] =
             Cardinality({j \in 1..Len(reports) :
                            LabelText(reports[j].report_time)
                              = req[q].report_data.labels[i]})

C8_Witness ==
  \E q \in Slots :
    /\ req[q].response = "stats.html"
    /\ Len(req[q].donation_data.labels) = 3
    /\ req[q].donation_data.labels[3] = Unknown
    /\ donations[1].pickup_time = NoTime

\* C9: a stats request changes no stored row, and two stats responses over
\* the same stored rows carry the same labels and counts, in whatever order
\* the store returned the rows to each.
C9_StatsPureAndRepeatable ==
  [][ /\ (\E q \in Slots : req[q].kind = "stats" \/ req'[q].kind = "stats")
           => UNCHANGED <<users, donations, reports, events, feedbacks>>
      /\ \A q1, q2 \in Slots :
           (req'[q1].response = "stats.html" /\ req'[q2].response = "stats.html")
             => /\ req'[q1].donation_data = req'[q2].donation_data
                /\ req'[q1].report_data = req'[q2].report_data ]_vars

C9_Witness ==
  /\ \A q \in Slots : req[q].response = "stats.html"
  /\ Len(donations) >= 2
  /\ donations[1].pickup_time # donations[2].pickup_time

----------------------------------------------------------------------------
(* Properties of the intake handlers *)

CommitStep(q, kind) ==
  req[q].kind = kind /\ req[q].pc = "commit" /\ req'[q].pc # "commit"

\* C10: the commit of an intake adds exactly one row of the submitted type,
\* owned by the submitter, raises the submitter's points by exactly 10
\* (Donation) or 5 (Report), and alters no other row and no other user.
C10_IntakeAddsOneRowAndPoints ==
  [][ \A q \in Slots :
        /\ CommitStep(q, "add_donation") =>
             /\ Len(donations') = Len(donations) + 1
             /\ SubSeq(donations', 1, Len(donations)) = donations
             /\ donations'[Len(donations')].donor_id = req[q].user
             /\ reports' = reports
             /\ users' = [users EXCEPT ![req[q].user].points = @ + 10]
        /\ CommitStep(q, "report_animal") =>
             /\ Len(reports') = Len(reports) + 1
             /\ SubSeq(reports', 1, Len(reports)) = reports
             /\ reports'[Len(reports')].reporter_id = req[q].user
             /\ donations' = donations
             /\ users' = [users EXCEPT ![req[q].user].points = @ + 5] ]_vars

\* the count that chart shows under label (0 when the label is not there)
CountUnder(chart, label) ==
  SumSeq([i \in 1..Len(chart.labels) |->
            IF chart.labels[i] = label THEN chart.counts[i] ELSE 0])

\* C15: the donation chart counts every Donation without pickup_time under
\* "Unknown" and every other Donation under the label of its month, so that
\* the counts add up to the number of Donations.
C15_AbsentPickupTimeCountedAsUnknown ==
  \A q \in Slots :
    (req[q].kind = "stats" /\ req[q].pc \in {"reports", "done"}
       /\ req[q].flash # NoAnalytics)
      => /\ CountUnder(req[q].donation_data,
                       <<"U", "n", "k", "n", "o", "w", "n">>)
              = Cardinality({j \in 1..Len(donations) :
                               donations[j].pickup_time = NoTime})
         /\ \A t \in Months :
              CountUnder(req[q].donation_data, LabelText(t))
                = Cardinality({j \in 1..Len(donations) :
                                 donations[j].pickup_time = t})
         /\ SumSeq(req[q].donation_data.counts) = Len(donations)

\* two Donations without pickup_time and one of January, all three counted
C15_Witness ==
  \E q \in Slots :
    /\ req[q].kind = "stats" /\ req[q].pc = "reports"
    /\ Len(donations) = 3
    /\ Cardinality({j \in 1..3 : donations[j].pickup_time = NoTime}) = 2
    /\ \E j \in 1..3 : donations[j].pickup_time = Jan2024
    /\ req[q].donation_data.labels = << LabelText(Jan2024), LabelText(NoTime) >>
    /\ req[q].donation_data.counts = <<1, 2>>

----------------------------------------------------------------------------
(* Properties of the image upload and of the validation of the forms *)

\* the attached names whose extension (what follows the last dot, in any
\* case) is png, jpg, jpeg or gif
ImageNames ==
  { <<"a", ".", "P", "N", "G">>, <<".", ".", "/", "e", ".", "g", "i", "f">> }

BeginStep(q, kind) == req[q].kind = "idle" /\ req'[q].kind = kind

\* C11: a Report gets an image_filename only if a file was attached whose
\* extension is in the allow-list; a submission with any other attachment
\* stores no file, goes on to its commit, and the commit persists the Report
\* without image_filename and awards the 5 points.
C11_ImageOnlyWithAllowedExtension ==
  [][ \A q \in Slots :
        /\ ( /\ BeginStep(q, "report_animal")
             /\ req'[q].form.absent = {}
             /\ req'[q].form.image.filename \notin ImageNames )
             => /\ uploads' = uploads
                /\ req'[q].image_filename = NoFilename
                /\ req'[q].pc = "commit"
        /\ CommitStep(q, "report_animal")
             => /\ Len(reports') = Len(reports) + 1
                /\ reports'[Len(reports')].image_filename # NoFilename
                     => /\ req[q].form.image.attached
                        /\ req[q].form.image.filename \in ImageNames
                /\ reports'[Len(reports')].image_filename
                     = req[q].image_filename
                /\ users'[req[q].user].points = req[q].points + 5 ]_vars

\* the report submitted with p.exe is committed, without an image
C11_Witness ==
  \E q \in Slots :
    /\ req[q].kind = "report_animal" /\ req[q].pc = "notify"
    /\ req[q].form.image.filename = <<"p", ".", "e", "x", "e">>
    /\ Len(reports) = 1
    /\ reports[1].image_filename = NoFilename
    /\ reports[1].reporter_id = req[q].user
    /\ uploads = {}
    /\ users[req[q].user].points = 5

\* a donation form with a required field missing or empty, or with a
\* pickup_time that is not a well-formed timestamp
InvalidDonation(f) ==
  f.absent # {} \/ f.description = <<>> \/ f.pickup_time \notin {Jan15, Mar02}

\* a report form with a required field missing or empty
InvalidReport(f) == f.absent # {} \/ f.animal_type = <<>>

InvalidSubmission(r) ==
  \/ r.kind = "add_donation" /\ InvalidDonation(r.form)
  \/ r.kind = "report_animal" /\ InvalidReport(r.form)

\* C12: a Donation or Report submission with a required field missing or
\* empty, or with a malformed timestamp, never gets past its commit (no row,
\* no points), and its response is a message with a redirect back to the
\* form.
C12_InvalidSubmissionRejected ==
  \A q \in Slots :
    InvalidSubmission(req[q])
      => /\ req[q].pc # "notify"
         /\ req[q].pc = "done" => req[q].response = "redirect form"

Intakes == {"add_donation", "report_animal"}

\* the row with primary key r.row is there, owned by r.user, with the
\* submitted description (Donation) or animal type (Report)
RowCommitted(r) ==
  \/ /\ r.kind = "add_donation"
     /\ r.row \in 1..Len(donations)
     /\ donations[r.row].donor_id = r.user
     /\ donations[r.row].description = r.form.description
  \/ /\ r.kind = "report_animal"
     /\ r.row \in 1..Len(reports)
     /\ reports[r.row].reporter_id = r.user
     /\ reports[r.row].animal_type = r.form.animal_type

\* C18: when the notifications of an add_donation or report_animal request
\* are attempted, the commit that stores its row (and with it its point
\* award) is already done, and the attempt, whatever its outcome, changes
\* nothing that is stored.
C18_CommitBeforeNotifications ==
  [][ \A q \in Slots :
        (req'[q].kind \in Intakes /\ req'[q].notified /\ ~req[q].notified)
          => /\ RowCommitted(req[q])
             /\ UNCHANGED <<users, donations, reports, uploads>> ]_vars

\* a notification raised, and the Donation of the request is stored
C18_Witness ==
  \E q \in Slots :
    /\ req[q].kind = "add_donation" /\ req[q].notified
    /\ req[q].response = "500 Internal Server Error"
    /\ Len(donations) = 1 /\ donations[1].donor_id = req[q].user
    /\ users[req[q].user].points = 10

\* C20: in every state every user's points are 10 times the number of
\* their Donations plus 5 times the number of their Reports, and so never
\* negative.
C20_PointsMatchOwnedRows ==
  \A u \in 1..Len(users) :
    /\ users[u].points
         = 10 * Cardinality({i \in 1..Len(donations) :
                               donations[i].donor_id = u})
           + 5 * Cardinality({i \in 1..Len(reports) :
                                reports[i].reporter_id = u})
    /\ users[u].points >= 0

----------------------------------------------------------------------------
(* Properties of the accounts *)

\* C13: no registration and no profile update reaches the UNIQUE constraints
\* of the store: a write that would give two users the same username or
\* email is refused before it, with a message.
C13_DuplicatesDetectedBeforeWrite ==
  \A q \in Slots : req[q].response # "500 IntegrityError"

----------------------------------------------------------------------------
(* Properties of the whole site *)

Gated == {"create_event", "stats"}

\* C14: a create_event (GET or POST) or stats request of a user who is not
\* an admin changes no stored state and ends in a redirect to the dashboard
\* with a message; only an admin's request adds an Event or gets the
\* analytics page; no other operation turns a user away for their role.
C14_OnlyAdminsCreateEventsAndSeeStats ==
  [][ \A q \in Slots :
        /\ ( /\ BeginStep(q, req'[q].kind)
             /\ req'[q].kind \in Gated
             /\ users[req'[q].user].role # "admin" )
             => /\ UNCHANGED <<users, donations, reports, events, feedbacks,
                               uploads>>
                /\ req'[q].pc = "done"
                /\ req'[q].response = "redirect dashboard"
                /\ req'[q].flash \in {NoAnalytics, NoEvents}
        /\ Len(events') > Len(events)
             => \E p \in Slots :
                  /\ BeginStep(p, "create_event")
                  /\ users[req'[p].user].role = "admin"
        /\ req'[q].response = "stats.html"
             => users[req'[q].user].role = "admin"
        /\ req'[q].flash \in {NoAnalytics, NoEvents}
             => /\ req'[q].kind \in Gated
                /\ users[req'[q].user].role # "admin" ]_vars

\* a donor who has added a Donation is turned away by POST /create_event
C14_Witness ==
  \E q \in Slots :
    /\ req[q].kind = "create_event" /\ req[q].method = "POST"
    /\ users[req[q].user].role = "donor"
    /\ req[q].flash = NoEvents /\ req[q].response = "redirect dashboard"
    /\ Len(donations) = 1 /\ donations[1].donor_id = req[q].user
    /\ events = <<>>

\* a Donation and a Report without their coordinate columns
DonationFacts(d) ==
  [donor_id |-> d.donor_id, description |-> d.description,
   pickup_time |-> d.pickup_time]
ReportFacts(r) ==
  [reporter_id |-> r.reporter_id, animal_type |-> r.animal_type,
   report_time |-> r.report_time, image_filename |-> r.image_filename]

\* a Map View Builder request of the given kind is at its call of the
\* resolver for row i
Geocoding(kind, i) ==
  \E q \in Slots :
    /\ req[q].kind = kind /\ req[q].pc = "geocode"
    /\ req[q].fetched[req[q].idx] = i

\* C19: no step removes a row of the User, Donation, Report, Event or
\* Feedback table; no step changes a column of a stored Donation or Report
\* other than its coordinates; and the coordinates of a row change only in
\* the step of a Map View Builder request that calls the resolver for that
\* row, to the latitude and longitude of the location it returned.
C19_RowsKeptOnlyCoordinatesChange ==
  [][ /\ Len(users') >= Len(users)
      /\ Len(events') >= Len(events)
      /\ Len(feedbacks') >= Len(feedbacks)
      /\ Len(donations') >= Len(donations)
      /\ Len(reports') >= Len(reports)
      /\ \A i \in 1..Len(donations) :
           /\ DonationFacts(donations'[i]) = DonationFacts(donations[i])
           /\ donations'[i] # donations[i]
                => /\ Geocoding("donation_map", i)
                   /\ \E loc \in GeoLocations :
                        /\ donations'[i].pickup_latitude = loc.latitude
                        /\ donations'[i].pickup_longitude = loc.longitude
      /\ \A i \in 1..Len(reports) :
           /\ ReportFacts(reports'[i]) = ReportFacts(reports[i])
           /\ reports'[i] # reports[i]
                => /\ Geocoding("map_view", i)
                   /\ \E loc \in GeoLocations :
                        /\ reports'[i].latitude = loc.latitude
                        /\ reports'[i].longitude = loc.longitude ]_vars

\* a Donation and an account registered after it are stored, and the
\* Donation has got its coordinates
C19_Witness ==
  /\ Len(donations) = 1 /\ Len(users) = 3
  /\ donations[1].pickup_latitude # None
  /\ donations[1].pickup_time = Jan2024

----------------------------------------------------------------------------
(* Properties of the events *)

\* user u has a row for event e in event_participants
SignedUp(table, e, u) ==
  e \in 1..Len(table)
    /\ \E i \in 1..Len(table[e].participants) : table[e].participants[i] = u

\* C17: after every step each (user, event) pair has at most one row in the
\* participants of the event, and a step of a sign-up request of a user who
\* already has the row leaves every event's participants as they are.
C17_EachPairAtMostOnce ==
  [][ /\ \A e \in 1..Len(events') :
           \A i, j \in 1..Len(events'[e].participants) :
             events'[e].participants[i] = events'[e].participants[j] => i = j
      /\ \A q \in Slots :
           ( /\ req'[q] # req[q]
             /\ req'[q].kind = "signup_event"
             /\ SignedUp(events, req'[q].event_id, req'[q].user) )
             => events' = events ]_vars

\* two sign-ups of one user for one event were interleaved: the second
\* commit was refused, and the user has one row
C17_Witness ==
  \E q \in Slots :
    /\ req[q].kind = "signup_event"
    /\ req[q].response = "500 IntegrityError"
    /\ events[req[q].event_id].participants = <<req[q].user>>

====
